---- MODULE Spec2Model ----
(***************************************************************************)
(* Model of docker-backup.py: one run of the stop -> archive -> start ->   *)
(* retention -> disk probe -> report -> exit pipeline, with the outcome of *)
(* every external call (directory test, docker, tar, du, find, remove, df, *)
(* SMTP, log file write) chosen by the environment.                        *)
(*                                                                         *)
(* Paths are numbers.  A stack is identified by the number of its          *)
(* directory; the archive written for stack s in this run has path s; the  *)
(* archives left by earlier runs have the paths OldBase + 1 ...            *)
(* A log entry keeps its level, the fixed part of its message (msg), the   *)
(* description of the command it is about (desc) and the stack, path or    *)
(* count it mentions (arg); the timestamp and the command line are left    *)
(* out.                                                                    *)
(* In one run at most MaxFaults external calls take an outcome other than  *)
(* the nominal one (directory present, exit status 0, size measured, file  *)
(* removed, df output well formed, mail accepted); faults counts them.     *)
(* Calls that the script makes without any handler (os.makedirs,           *)
(* os.path.relpath) are taken to succeed.                                  *)
(***************************************************************************)
EXTENDS Integers, Sequences, FiniteSets, TLC

\* ---- bounds ----
NumStacks == 1
MaxOldFiles == 2
MaxFaults == 2

\* ---- configuration (lines 9-30) ----
DAILY_RETENTION_DAYS == 28
STACKS == [i \in 1..NumStacks |-> i]
EXTRA_STACK_PATH == 0
OldBase == 100
OldPaths == {OldBase + k : k \in 1..MaxOldFiles}
Ages == {DAILY_RETENTION_DAYS, DAILY_RETENTION_DAYS + 1}

NoArg == -1
Range(s) == {s[i] : i \in DOMAIN s}

VARIABLES pc, idx, LOG_MESSAGES, BACKUP_SUCCESSFUL, NEW_ARCHIVES,
          DELETED_FILES, successfully_stopped_stacks, files, disk_info,
          email, log_file, exit_code, faults

vars == <<pc, idx, LOG_MESSAGES, BACKUP_SUCCESSFUL, NEW_ARCHIVES,
          DELETED_FILES, successfully_stopped_stacks, files, disk_info,
          email, log_file, exit_code, faults>>

\* ---- log (lines 40-48) ----
Msg(m, d, a) == [msg |-> m, desc |-> d, arg |-> a]


\* variant: a WARNING fails the run as well
log_warning_fails(st, message, level) ==
    [log |-> Append(st.log, [level |-> level, msg |-> message.msg,
                             desc |-> message.desc, arg |-> message.arg]),
     ok  |-> IF level # "INFO" THEN FALSE ELSE st.ok]

log(st, message, level) ==
    [log |-> Append(st.log, [level |-> level, msg |-> message.msg,
                             desc |-> message.desc, arg |-> message.arg]),
     ok  |-> IF level = "ERROR" THEN FALSE ELSE st.ok]

\* ---- run_command (lines 50-62) ----
\* outcome.kind is "ok" (exit status 0, outcome.stdout captured),
\* "CalledProcessError" (nonzero exit) or "FileNotFoundError".
CmdOk(out) == [kind |-> "ok", stdout |-> out]
CmdFailed == [kind |-> "CalledProcessError", stdout |-> <<>>]
CmdNotFound == [kind |-> "FileNotFoundError", stdout |-> <<>>]
CmdOutcomes == {CmdOk(<<>>), CmdFailed, CmdNotFound}


\* variant: a failed command is logged as a WARNING
run_command_warns(st, description, arg, outcome) ==
    LET s1 == log(st, Msg("Starting command", description, arg), "INFO")
    IN  CASE outcome.kind = "ok" ->
               [st |-> log(s1, Msg("Successfully finished", description, arg), "INFO"),
                none |-> FALSE, stdout |-> outcome.stdout]
          [] outcome.kind = "CalledProcessError" ->
               [st |-> log(s1, Msg("Failed", description, arg), "WARNING"),
                none |-> TRUE, stdout |-> <<>>]
          [] outcome.kind = "FileNotFoundError" ->
               [st |-> log(s1, Msg("Command not found", "", NoArg), "WARNING"),
                none |-> TRUE, stdout |-> <<>>]

run_command(st, description, arg, outcome) ==
    LET s1 == log(st, Msg("Starting command", description, arg), "INFO")
    IN  CASE outcome.kind = "ok" ->
               [st |-> log(s1, Msg("Successfully finished", description, arg), "INFO"),
                none |-> FALSE, stdout |-> outcome.stdout]
          [] outcome.kind = "CalledProcessError" ->
               [st |-> log(s1, Msg("Failed", description, arg), "ERROR"),
                none |-> TRUE, stdout |-> <<>>]
          [] outcome.kind = "FileNotFoundError" ->
               [st |-> log(s1, Msg("Command not found", "", NoArg), "ERROR"),
                none |-> TRUE, stdout |-> <<>>]

\* ---- compose_action (lines 64-80) ----

\* variant: a compose command that succeeds marks the run successful again
compose_action_clears_failure(st, stack_path, action, isdir, outcome) ==
    IF ~isdir
    THEN [st |-> log(st, Msg("Stack directory not found. Skipping", action, stack_path),
                     "WARNING"),
          ret |-> TRUE]
    ELSE LET action_text == IF action = "down" THEN "Stopping" ELSE "Starting"
             s1 == log(st, Msg("stack in", action_text, stack_path), "INFO")
             result == run_command(s1, action_text, stack_path, outcome)
         IN  [st |-> IF result.none THEN result.st ELSE [result.st EXCEPT !.ok = TRUE],
              ret |-> ~result.none]

\* isdir is what os.path.isdir answers at this call.  The choice between
\* compose.yaml and docker-compose.yml (line 73) changes the command line only.
compose_action(st, stack_path, action, isdir, outcome) ==
    IF ~isdir
    THEN [st |-> log(st, Msg("Stack directory not found. Skipping", action, stack_path),
                     "WARNING"),
          ret |-> TRUE]
    ELSE LET action_text == IF action = "down" THEN "Stopping" ELSE "Starting"
             s1 == log(st, Msg("stack in", action_text, stack_path), "INFO")
             result == run_command(s1, action_text, stack_path, outcome)
         IN  [st |-> result.st, ret |-> ~result.none]

\* ---- sizes ----
RECURSIVE Pow1024(_)
Pow1024(i) == IF i = 0 THEN 1 ELSE 1024 * Pow1024(i - 1)

\* the while loop of format_bytes (lines 201-204): the unit reached
RECURSIVE UnitIndex(_, _)
UnitIndex(size_bytes, i) ==
    IF i < 8 /\ size_bytes >= Pow1024(i + 1) THEN UnitIndex(size_bytes, i + 1) ELSE i

\* n/d rounded to the nearest integer, ties to even (the "%.1f" conversion)
RoundHalfEven(n, d) ==
    LET q == n \div d
        r == n % d
    IN  IF 2 * r < d THEN q
        ELSE IF 2 * r > d THEN q + 1
        ELSE IF q % 2 = 0 THEN q ELSE q + 1

CeilDiv(n, d) == (n + d - 1) \div d

\* A human-readable size is <<tenths, unit>>: <<15, 1>> is "1.5K",
\* <<120, 1>> is "12K", <<70, 0>> is "7B".  NA is the string "N/A".
NA == <<-1, -1>>

\* ---- format_bytes (lines 196-208) ----
format_bytes(size_bytes) ==
    IF size_bytes = 0 THEN <<0, 0>>
    ELSE LET i == UnitIndex(size_bytes, 0)
         IN  IF i = 0 THEN <<size_bytes * 10, 0>>
             ELSE <<RoundHalfEven(size_bytes * 10, Pow1024(i)), i>>

\* ---- du -h (line 123): disk usage in 4096-byte blocks, rounded up ----
BlockSize == 4096
du_h(size_bytes) ==
    LET usage == CeilDiv(size_bytes, BlockSize) * BlockSize
        i == UnitIndex(usage, 0)
        tenths == CeilDiv(usage * 10, Pow1024(i))
    IN  IF usage = 0 THEN <<0, 0>>
        ELSE IF tenths < 100 THEN <<tenths, i>>
        ELSE <<CeilDiv(usage, Pow1024(i)) * 10, i>>

\* ---- create_archive (lines 82-131) ----
\* tar is the outcome of the tar command; measured is the size in bytes of
\* the file tar wrote, or SizeFails when du or os.path.getsize raises.
\* The command line always has a word after -C, so of lines 109-117 only the
\* run_command call of line 112 can be reached.
SizeFails == -1
\* the size in bytes of the archive tar writes for a stack (a multiple of
\* tar's 10240-byte record)
archive_size(stack_path) ==
    IF stack_path = EXTRA_STACK_PATH THEN 1048576 ELSE 10240 * stack_path
basename(path) == path


\* variant: the archive is recorded whatever tar returned
create_archive_records_failed(st, archives, fs, stack_name, stack_path, tar, measured) ==
    LET archive_name == IF stack_path = EXTRA_STACK_PATH
                        THEN basename(stack_path) ELSE stack_name
        s1 == log(st, Msg("Creating uncompressed archive", "", archive_name), "INFO")
        result == run_command(s1, "Archiving", archive_name, tar)
    IN  [st |-> result.st,
         archives |-> Append(archives, [path |-> archive_name,
                                        size_human |-> IF measured = SizeFails
                                                       THEN NA ELSE du_h(measured),
                                        size_bytes |-> IF measured = SizeFails
                                                       THEN 0 ELSE measured]),
         files |-> IF result.none THEN fs ELSE (archive_name :> 0) @@ fs,
         ret |-> ~result.none]

create_archive(st, archives, fs, stack_name, stack_path, tar, measured) ==
    LET archive_name == IF stack_path = EXTRA_STACK_PATH
                        THEN basename(stack_path) ELSE stack_name
        target_filename == archive_name
        s1 == log(st, Msg("Creating uncompressed archive", "", target_filename), "INFO")
        result == run_command(s1, "Archiving", archive_name, tar)
        size_human == IF measured = SizeFails THEN NA ELSE du_h(measured)
        size_bytes == IF measured = SizeFails THEN 0 ELSE measured
    IN  IF ~result.none
        THEN [st |-> result.st,
              archives |-> Append(archives, [path |-> target_filename,
                                             size_human |-> size_human,
                                             size_bytes |-> size_bytes]),
              files |-> (target_filename :> 0) @@ fs,
              ret |-> TRUE]
        ELSE [st |-> result.st, archives |-> archives, files |-> fs, ret |-> FALSE]

\* ---- cleanup_local_backups (lines 134-171) ----
\* variant: find without the -mtime test
find_matches_any_age(fs) == DOMAIN fs

\* find ... -mtime +N prints the files whose age in whole days exceeds N
find_matches(fs) == {f \in DOMAIN fs : fs[f] > DAILY_RETENTION_DAYS}

\* the order in which find prints: here by descending path
RECURSIVE find_output(_)
find_output(S) ==
    IF S = {} THEN <<>>
    ELSE LET m == CHOOSE x \in S : \A y \in S : y <= x
         IN  <<m>> \o find_output(S \ {m})


\* variant: a file is recorded as deleted whether or not os.remove raised
remove_one_records_failed(file_path, undeletable, acc) ==
    IF file_path \in undeletable
    THEN [acc EXCEPT !.st = log(acc.st, Msg("Error deleting file", "", file_path), "ERROR"),
                     !.deleted = Append(acc.deleted, file_path)]
    ELSE [st |-> log(acc.st, Msg("Deleted old backup", "", file_path), "INFO"),
          deleted |-> Append(acc.deleted, file_path),
          files |-> [f \in DOMAIN acc.files \ {file_path} |-> acc.files[f]],
          deleted_count |-> acc.deleted_count + 1]

\* the body of the for loop (lines 155-164); undeletable is the set of files
\* on which os.remove raises OSError
remove_one(file_path, undeletable, acc) ==
    IF file_path \in undeletable
    THEN [acc EXCEPT !.st = log(acc.st, Msg("Error deleting file", "", file_path), "ERROR")]
    ELSE [st |-> log(acc.st, Msg("Deleted old backup", "", file_path), "INFO"),
          deleted |-> Append(acc.deleted, file_path),
          files |-> [f \in DOMAIN acc.files \ {file_path} |-> acc.files[f]],
          deleted_count |-> acc.deleted_count + 1]

\* variant: the loop is left after the first file
remove_each_first_only(files_to_delete, undeletable, acc) ==
    IF files_to_delete = <<>> THEN acc
    ELSE remove_one(Head(files_to_delete), undeletable, acc)

\* the for loop (lines 154-164)
RECURSIVE remove_each(_, _, _)
remove_each(files_to_delete, undeletable, acc) ==
    IF files_to_delete = <<>> THEN acc
    ELSE remove_each(Tail(files_to_delete), undeletable,
                     remove_one(Head(files_to_delete), undeletable, acc))

FindOutcomes == {"ok", "CalledProcessError", "Exception"}


\* variant: a failed find is logged and the matching files are removed all the same
cleanup_removes_after_failed_find(st, deleted, fs, find, undeletable) ==
    LET s1 == log(st, Msg("Starting local backup cleanup", "", DAILY_RETENTION_DAYS), "INFO")
        s2 == CASE find = "CalledProcessError" ->
                     log(s1, Msg("Error during find command execution", "", NoArg), "ERROR")
                [] find = "Exception" ->
                     log(s1, Msg("An unexpected error occurred during cleanup", "", NoArg),
                         "ERROR")
                [] find = "ok" -> s1
        r == remove_each(find_output(find_matches(fs)), undeletable,
                         [st |-> s2, deleted |-> deleted, files |-> fs, deleted_count |-> 0])
    IN  [st |-> IF find = "ok"
                THEN log(r.st, Msg("Local cleanup finished", "", r.deleted_count), "INFO")
                ELSE r.st,
         deleted |-> r.deleted, files |-> r.files]

cleanup_local_backups(st, deleted, fs, find, undeletable) ==
    LET s1 == log(st, Msg("Starting local backup cleanup", "", DAILY_RETENTION_DAYS), "INFO")
        unchanged == [deleted |-> deleted, files |-> fs]
    IN  CASE find = "CalledProcessError" ->
               [st |-> log(s1, Msg("Error during find command execution", "", NoArg), "ERROR")]
               @@ unchanged
          [] find = "Exception" ->
               [st |-> log(s1, Msg("An unexpected error occurred during cleanup", "", NoArg),
                           "ERROR")]
               @@ unchanged
          [] find = "ok" ->
               LET r == remove_each(find_output(find_matches(fs)), undeletable,
                                    [st |-> s1, deleted |-> deleted, files |-> fs,
                                     deleted_count |-> 0])
               IN  [st |-> log(r.st, Msg("Local cleanup finished", "", r.deleted_count), "INFO"),
                    deleted |-> r.deleted, files |-> r.files]

\* ---- get_disk_usage (lines 174-194) ----
\* the stdout of df is a sequence of lines, a line a sequence of fields.
\* run_command catches what it raises, so the handler of lines 192-194 is not
\* reached.
NoDisk == [avail |-> FALSE, data |-> <<>>]
DfHeader == <<"Size", "Used", "Avail", "Use%", "Mounted">>
DfOutputs == { <<>>,
               <<DfHeader>>,
               <<DfHeader, <<"1008G", "196G">>>>,
               <<DfHeader, <<"1008G", "196G", "812G", "21%", "/">>>> }
DfOutcomes == {CmdOk(out) : out \in DfOutputs} \cup {CmdFailed, CmdNotFound}
DfGood == CmdOk(<<DfHeader, <<"1008G", "196G", "812G", "21%", "/">>>>)


\* variant: output that cannot be parsed is logged as an ERROR
get_disk_usage_parse_error(st, outcome) ==
    LET df_result == run_command(st, "Checking disk usage", NoArg, outcome)
        lines == df_result.stdout
    IN  IF /\ ~df_result.none
           /\ lines # <<>>
           /\ Len(lines) > 1
           /\ Len(lines[2]) >= 5
        THEN [st |-> df_result.st, ret |-> [avail |-> TRUE, data |-> lines[2]]]
        ELSE [st |-> log(df_result.st, Msg("Could not parse disk usage data", "", NoArg),
                         "ERROR"),
              ret |-> NoDisk]

get_disk_usage(st, outcome) ==
    LET df_result == run_command(st, "Checking disk usage", NoArg, outcome)
        lines == df_result.stdout
    IN  IF /\ ~df_result.none
           /\ lines # <<>>
           /\ Len(lines) > 1
           /\ Len(lines[2]) >= 5
        THEN [st |-> df_result.st, ret |-> [avail |-> TRUE, data |-> lines[2]]]
        ELSE [st |-> log(df_result.st, Msg("Could not parse disk usage data", "", NoArg),
                         "WARNING"),
              ret |-> NoDisk]

\* ---- send_email_notification (lines 211-334) ----
\* The report is kept by its parts: the status of subject and body, the rows
\* and the total of the archive table, the disk section, the rows of the
\* retention table and the log transcript.  The host name and the date of
\* the subject are left out.
RECURSIVE sum_bytes(_)
sum_bytes(archives) ==
    IF archives = <<>> THEN 0 ELSE Head(archives).size_bytes + sum_bytes(Tail(archives))


\* variant: the total is the sum of what the human-readable strings denote
human_to_bytes(h) == IF h = NA THEN 0 ELSE (h[1] * Pow1024(h[2])) \div 10
RECURSIVE sum_human(_)
sum_human(archives) ==
    IF archives = <<>> THEN 0
    ELSE human_to_bytes(Head(archives).size_human) + sum_human(Tail(archives))
total_size_from_human(archives) == sum_human(archives)

total_size_bytes(archives) == sum_bytes(archives)

derive_status(ok) == IF ok THEN "SUCCESS" ELSE "FAILURE"

sort_archives(archives) == SortSeq(archives, LAMBDA a, b : a.path < b.path)
sort_deleted(deleted) == SortSeq(deleted, LAMBDA a, b : a < b)



\* variant: the transcript keeps the ERROR entries only
log_body_errors_only(entries) == SelectSeq(entries, LAMBDA e : e.level = "ERROR")

\* line 303: the transcript is the entries logged so far, one per line
log_body(entries) == entries

\* lines 305-316: the body is the three tables, the "Full Log" heading and the
\* transcript, in this order
Part(name) == [part |-> name]
email_content(transcript) ==
    <<Part("archive_table"), Part("disk_summary"), Part("retention_table"),
      Part("--- Full Log ---")>> \o transcript

\* variant: a failed send empties the archive list
send_email_forgets_archives(st, archives, deleted, disk, smtp_ok) ==
    LET sorted == sort_archives(archives)
        total == total_size_bytes(sorted)
        deleted_sorted == IF deleted # <<>> THEN sort_deleted(deleted) ELSE deleted
        msg == [composed |-> TRUE,
                status |-> derive_status(st.ok),
                archive_rows |-> [i \in DOMAIN sorted |->
                                    <<sorted[i].size_human, sorted[i].path>>],
                total_shown |-> sorted # <<>>,
                total_size_bytes |-> total,
                total_size_human |-> format_bytes(total),
                disk_avail |-> disk.avail,
                retention_rows |-> deleted_sorted,
                log_body |-> log_body(st.log),
                content |-> email_content(log_body(st.log)),
                delivered |-> smtp_ok]
        s1 == log(st, Msg("Sending email notification", "", NoArg), "INFO")
    IN  IF smtp_ok
        THEN [st |-> log(s1, Msg("Email sent successfully", "", NoArg), "INFO"),
              archives |-> sorted, deleted |-> deleted_sorted, email |-> msg]
        ELSE [st |-> log(s1, Msg("Failed to send email", "", NoArg), "ERROR"),
              archives |-> <<>>, deleted |-> deleted_sorted, email |-> msg]

send_email_notification(st, archives, deleted, disk, smtp_ok) ==
    LET status == derive_status(st.ok)
        sorted == sort_archives(archives)
        total == total_size_bytes(sorted)
        deleted_sorted == IF deleted # <<>> THEN sort_deleted(deleted) ELSE deleted
        msg == [composed |-> TRUE,
                status |-> status,
                archive_rows |-> [i \in DOMAIN sorted |->
                                    <<sorted[i].size_human, sorted[i].path>>],
                total_shown |-> sorted # <<>>,
                total_size_bytes |-> total,
                total_size_human |-> format_bytes(total),
                disk_avail |-> disk.avail,
                retention_rows |-> deleted_sorted,
                log_body |-> log_body(st.log),
                content |-> email_content(log_body(st.log)),
                delivered |-> smtp_ok]
        s1 == log(st, Msg("Sending email notification", "", NoArg), "INFO")
        s2 == IF smtp_ok
              THEN log(s1, Msg("Email sent successfully", "", NoArg), "INFO")
              ELSE log(s1, Msg("Failed to send email", "", NoArg), "ERROR")
    IN  [st |-> s2, archives |-> sorted, deleted |-> deleted_sorted, email |-> msg]

\* ---- state after construction (lines 33-36) ----
NoEmail == [composed |-> FALSE, status |-> "", archive_rows |-> <<>>,
            total_shown |-> FALSE, total_size_bytes |-> 0,
            total_size_human |-> <<0, 0>>, disk_avail |-> FALSE,
            retention_rows |-> <<>>, log_body |-> <<>>, content |-> <<>>,
            delivered |-> FALSE]

Init ==
    /\ pc = "main"
    /\ idx = 0
    /\ LOG_MESSAGES = <<>>
    /\ BACKUP_SUCCESSFUL = TRUE
    /\ NEW_ARCHIVES = <<>>
    /\ DELETED_FILES = <<>>
    /\ successfully_stopped_stacks = <<>>
    /\ files \in [OldPaths -> Ages]
    /\ disk_info = NoDisk
    /\ email = NoEmail
    /\ log_file = <<>>
    /\ exit_code = -1
    /\ faults = 0

\* ---- main (lines 338-398) ----

\* variant: the stacks of STACKS are visited a second time after the extra stack
all_stacks_revisited == Append(STACKS, EXTRA_STACK_PATH) \o STACKS

\* lines 354-356: EXTRA_STACK_PATH is set, so the extra stack comes last
all_stacks == Append(STACKS, EXTRA_STACK_PATH)
State == [log |-> LOG_MESSAGES, ok |-> BACKUP_SUCCESSFUL]

\* variant: once the run has failed, main goes straight to its exit
next_phase_abort(phase) ==
    IF ~BACKUP_SUCCESSFUL /\ phase # "finish" THEN "finish"
    ELSE CASE phase = "main" -> "stop"
           [] phase = "stop" -> "archive"
           [] phase = "archive" -> "start"
           [] phase = "start" -> "disk"
           [] phase = "disk" -> "email"
           [] phase = "email" -> "finish"
           [] phase = "finish" -> "done"

\* main is straight-line code (lines 351-398): the phase that follows each
\* phase, whatever the phase logged
next_phase(phase) ==
    CASE phase = "main" -> "stop"
      [] phase = "stop" -> "archive"
      [] phase = "archive" -> "start"
      [] phase = "start" -> "disk"
      [] phase = "disk" -> "email"
      [] phase = "email" -> "finish"
      [] phase = "finish" -> "done"
Cost(b) == IF b THEN 1 ELSE 0

\* lines 339-356: header, Phase 0, Phase 1
Initialize ==
    /\ pc = "main"
    /\ LET s0 == [State EXCEPT !.log = Append(@, [level |-> "", msg |-> "SCRIPT START",
                                                   desc |-> "", arg |-> NoArg])]
           s1 == log(s0, Msg("Phase 0: Initializing directories", "", NoArg), "INFO")
           s2 == log(s1, Msg("Phase 1: Stopping all stacks", "", NoArg), "INFO")
       IN  /\ LOG_MESSAGES' = s2.log
           /\ BACKUP_SUCCESSFUL' = s2.ok
    /\ successfully_stopped_stacks' = <<>>
    /\ pc' = next_phase("main")
    /\ idx' = 1
    /\ UNCHANGED <<NEW_ARCHIVES, DELETED_FILES, files, disk_info, email, log_file,
                   exit_code, faults>>


\* variant: every stack is recorded, whatever compose_action returned
record_stop_always(stopped, stack_path, ret) == Append(stopped, stack_path)

\* lines 361-362: a stack is recorded as stopped when compose_action returns True
record_stop(stopped, stack_path, ret) ==
    IF ret THEN Append(stopped, stack_path) ELSE stopped

\* lines 360-362: one iteration of the stop loop
StopStack ==
    /\ pc = "stop"
    /\ idx <= Len(all_stacks)
    /\ \E isdir \in BOOLEAN, outcome \in CmdOutcomes :
         LET cost == Cost(~isdir) + Cost(isdir /\ outcome.kind # "ok")
             r == compose_action(State, all_stacks[idx], "down", isdir, outcome)
         IN  /\ isdir \/ outcome = CmdOk(<<>>)
             /\ faults + cost <= MaxFaults
             /\ faults' = faults + cost
             /\ LOG_MESSAGES' = r.st.log
             /\ BACKUP_SUCCESSFUL' = r.st.ok
             /\ successfully_stopped_stacks' =
                  record_stop(successfully_stopped_stacks, all_stacks[idx], r.ret)
    /\ idx' = idx + 1
    /\ UNCHANGED <<pc, NEW_ARCHIVES, DELETED_FILES, files, disk_info, email, log_file,
                   exit_code>>

\* line 365
EnterPhase2 ==
    /\ pc = "stop"
    /\ idx > Len(all_stacks)
    /\ LET s1 == log(State, Msg("Phase 2: Creating archives", "", NoArg), "INFO")
       IN  /\ LOG_MESSAGES' = s1.log
           /\ BACKUP_SUCCESSFUL' = s1.ok
    /\ pc' = next_phase("stop")
    /\ idx' = 1
    /\ UNCHANGED <<NEW_ARCHIVES, DELETED_FILES, successfully_stopped_stacks, files,
                   disk_info, email, log_file, exit_code, faults>>

\* lines 367-371: one create_archive call, the STACKS first, the extra stack last
ArchiveStack ==
    /\ pc = "archive"
    /\ idx <= Len(all_stacks)
    /\ \E tar \in CmdOutcomes, measured \in {archive_size(all_stacks[idx]), SizeFails} :
         LET cost == Cost(tar.kind # "ok") + Cost(tar.kind = "ok" /\ measured = SizeFails)
             r == create_archive(State, NEW_ARCHIVES, files, basename(all_stacks[idx]),
                                 all_stacks[idx], tar, measured)
         IN  /\ tar.kind # "ok" => measured = SizeFails
             /\ faults + cost <= MaxFaults
             /\ faults' = faults + cost
             /\ LOG_MESSAGES' = r.st.log
             /\ BACKUP_SUCCESSFUL' = r.st.ok
             /\ NEW_ARCHIVES' = r.archives
             /\ files' = r.files
    /\ idx' = idx + 1
    /\ UNCHANGED <<pc, DELETED_FILES, successfully_stopped_stacks, disk_info, email,
                   log_file, exit_code>>

\* line 374
EnterPhase3 ==
    /\ pc = "archive"
    /\ idx > Len(all_stacks)
    /\ LET s1 == log(State, Msg("Phase 3: Starting stopped stacks", "", NoArg), "INFO")
       IN  /\ LOG_MESSAGES' = s1.log
           /\ BACKUP_SUCCESSFUL' = s1.ok
    /\ pc' = next_phase("archive")
    /\ idx' = 1
    /\ UNCHANGED <<NEW_ARCHIVES, DELETED_FILES, successfully_stopped_stacks, files,
                   disk_info, email, log_file, exit_code, faults>>


\* variant: the start loop is left as soon as the run has failed
start_targets_until_failure(stopped) ==
    IF BACKUP_SUCCESSFUL THEN stopped ELSE SubSeq(stopped, 1, idx - 1)

\* line 376: the start loop runs over the recorded stacks
start_targets(stopped) == stopped

\* variant: the start loop runs over every stack, stopped or not
StartStack_every_stack ==
    /\ pc = "start"
    /\ idx <= Len(successfully_stopped_stacks)
    /\ \E isdir \in BOOLEAN, outcome \in CmdOutcomes :
         LET cost == Cost(~isdir) + Cost(isdir /\ outcome.kind # "ok")
             r == compose_action(State, all_stacks[idx], "up", isdir, outcome)
         IN  /\ isdir \/ outcome = CmdOk(<<>>)
             /\ faults + cost <= MaxFaults
             /\ faults' = faults + cost
             /\ LOG_MESSAGES' = r.st.log
             /\ BACKUP_SUCCESSFUL' = r.st.ok
    /\ idx' = idx + 1
    /\ UNCHANGED <<pc, NEW_ARCHIVES, DELETED_FILES, successfully_stopped_stacks, files,
                   disk_info, email, log_file, exit_code>>

\* lines 376-377: one iteration of the start loop
StartStack ==
    /\ pc = "start"
    /\ idx <= Len(start_targets(successfully_stopped_stacks))
    /\ \E isdir \in BOOLEAN, outcome \in CmdOutcomes :
         LET cost == Cost(~isdir) + Cost(isdir /\ outcome.kind # "ok")
             r == compose_action(State, start_targets(successfully_stopped_stacks)[idx],
                                 "up", isdir, outcome)
         IN  /\ isdir \/ outcome = CmdOk(<<>>)
             /\ faults + cost <= MaxFaults
             /\ faults' = faults + cost
             /\ LOG_MESSAGES' = r.st.log
             /\ BACKUP_SUCCESSFUL' = r.st.ok
    /\ idx' = idx + 1
    /\ UNCHANGED <<pc, NEW_ARCHIVES, DELETED_FILES, successfully_stopped_stacks, files,
                   disk_info, email, log_file, exit_code>>

\* lines 380-381
Cleanup ==
    /\ pc = "start"
    /\ idx > Len(start_targets(successfully_stopped_stacks))
    /\ \E find \in FindOutcomes, undeletable \in SUBSET find_matches(files) :
         LET cost == Cost(find # "ok") + Cardinality(undeletable)
             s1 == log(State, Msg("Phase 4: Running local retention cleanup", "", NoArg),
                       "INFO")
             r == cleanup_local_backups(s1, DELETED_FILES, files, find, undeletable)
         IN  /\ find # "ok" => undeletable = {}
             /\ faults + cost <= MaxFaults
             /\ faults' = faults + cost
             /\ LOG_MESSAGES' = r.st.log
             /\ BACKUP_SUCCESSFUL' = r.st.ok
             /\ DELETED_FILES' = r.deleted
             /\ files' = r.files
    /\ pc' = next_phase("start")
    /\ UNCHANGED <<idx, NEW_ARCHIVES, successfully_stopped_stacks, disk_info, email,
                   log_file, exit_code>>

\* line 384
DiskUsage ==
    /\ pc = "disk"
    /\ \E outcome \in DfOutcomes :
         LET cost == Cost(outcome # DfGood)
             r == get_disk_usage(State, outcome)
         IN  /\ faults + cost <= MaxFaults
             /\ faults' = faults + cost
             /\ LOG_MESSAGES' = r.st.log
             /\ BACKUP_SUCCESSFUL' = r.st.ok
             /\ disk_info' = r.ret
    /\ pc' = next_phase("disk")
    /\ UNCHANGED <<idx, NEW_ARCHIVES, DELETED_FILES, successfully_stopped_stacks, files,
                   email, log_file, exit_code>>

\* line 385
SendEmail ==
    /\ pc = "email"
    /\ \E smtp_ok \in BOOLEAN :
         LET cost == Cost(~smtp_ok)
             r == send_email_notification(State, NEW_ARCHIVES, DELETED_FILES, disk_info,
                                          smtp_ok)
         IN  /\ faults + cost <= MaxFaults
             /\ faults' = faults + cost
             /\ LOG_MESSAGES' = r.st.log
             /\ BACKUP_SUCCESSFUL' = r.st.ok
             /\ NEW_ARCHIVES' = r.archives
             /\ DELETED_FILES' = r.deleted
             /\ email' = r.email
    /\ pc' = next_phase("email")
    /\ UNCHANGED <<idx, successfully_stopped_stacks, files, disk_info, log_file, exit_code>>


\* variant: the script always exits with status 0
exit_status_zero(ok) == 0

\* lines 387-398: last log entry, log file, exit status
exit_status(ok) == IF ~ok THEN 1 ELSE 0

Finish ==
    /\ pc = "finish"
    /\ LET s1 == log(State, Msg("SCRIPT END", "", NoArg), "INFO")
       IN  /\ LOG_MESSAGES' = s1.log
           /\ BACKUP_SUCCESSFUL' = s1.ok
           /\ \E write_ok \in BOOLEAN :
                log_file' = IF write_ok THEN s1.log ELSE <<>>
           /\ exit_code' = exit_status(s1.ok)
    /\ pc' = next_phase("finish")
    /\ UNCHANGED <<idx, NEW_ARCHIVES, DELETED_FILES, successfully_stopped_stacks, files,
                   disk_info, email, faults>>

Next ==
    \/ Initialize
    \/ StopStack
    \/ EnterPhase2
    \/ ArchiveStack
    \/ EnterPhase3
    \/ StartStack
    \/ Cleanup
    \/ DiskUsage
    \/ SendEmail
    \/ Finish

Spec == Init /\ [][Next]_vars

\* ---- reading the log ----
HasEntry(level, m, d, a) ==
    LET e == [level |-> level, msg |-> m, desc |-> d, arg |-> a]
    IN  \E i \in DOMAIN LOG_MESSAGES : LOG_MESSAGES[i] = e
HasError(entries) == \E i \in DOMAIN entries : entries[i].level = "ERROR"
AllStacks == Range(all_stacks)

DownIssued(s) == HasEntry("INFO", "Starting command", "Stopping", s)
DownSucceeded(s) == HasEntry("INFO", "Successfully finished", "Stopping", s)
DownSkipped(s) == HasEntry("WARNING", "Stack directory not found. Skipping", "down", s)
StopAttempted(s) == DownIssued(s) \/ DownSkipped(s)
StopFailed(s) == DownIssued(s) /\ ~DownSucceeded(s)
UpIssued(s) == HasEntry("INFO", "Starting command", "Starting", s)
UpSucceeded(s) == HasEntry("INFO", "Successfully finished", "Starting", s)
UpSkipped(s) == HasEntry("WARNING", "Stack directory not found. Skipping", "up", s)
StartAttempted(s) == UpIssued(s) \/ UpSkipped(s)
ArchiveAttempted(s) == HasEntry("INFO", "Starting command", "Archiving", s)
ArchiveSucceeded(s) == HasEntry("INFO", "Successfully finished", "Archiving", s)

\* C1: a start attempt is made for a stack only if its stop attempt returned
\* success (the down command succeeded, or the directory was absent): the
\* stacks given a start attempt are among the successfully stopped stacks.
C1_StartedSubsetOfStopped ==
    \A s \in AllStacks :
        StartAttempted(s) =>
            /\ s \in Range(successfully_stopped_stacks)
            /\ DownSucceeded(s) \/ DownSkipped(s)

C1_Witness ==
    /\ pc = "done"
    /\ \E s, t \in AllStacks : StopFailed(s) /\ UpIssued(t) /\ DownSucceeded(t)

C3_Original ==
    email.composed => (email.status = "FAILURE" <=> HasError(LOG_MESSAGES))

\* C3 (amended): the status derived for the report is FAILURE exactly when the
\* log held an ERROR entry when the report was composed (the transcript the
\* report embeds); the success flag is false exactly when an ERROR entry has
\* been logged.
C3_StatusIffErrorAtCompose ==
    /\ email.composed =>
         /\ email.status \in {"SUCCESS", "FAILURE"}
         /\ email.status = "FAILURE" <=> HasError(email.log_body)
    /\ BACKUP_SUCCESSFUL <=> ~HasError(LOG_MESSAGES)

C3_Witness ==
    /\ email.composed
    /\ email.status = "SUCCESS"
    /\ HasError(LOG_MESSAGES)
    /\ ~BACKUP_SUCCESSFUL
    /\ \E i \in DOMAIN LOG_MESSAGES : LOG_MESSAGES[i].level = "WARNING"

\* C4 (as stated): the exit code is 0 exactly when the status embedded in the
\* report is SUCCESS, and 1 otherwise.
C4_Original ==
    pc = "done" =>
        /\ exit_code \in {0, 1}
        /\ exit_code = 0 <=> email.status = "SUCCESS"

\* C4 (amended): when the notification send succeeds, the exit code is 0
\* exactly when the status embedded in the report is SUCCESS and 1 otherwise;
\* when the send fails the exit code is 1 whatever that status is.  In both
\* cases the exit code is 0 exactly when the log holds no ERROR entry.
C4_ExitCodeFollowsFlag ==
    /\ pc # "done" => exit_code = -1
    /\ pc = "done" =>
        /\ exit_code \in {0, 1}
        /\ exit_code = 0 <=> ~HasError(LOG_MESSAGES)
        /\ IF email.delivered
           THEN exit_code = 0 <=> email.status = "SUCCESS"
           ELSE exit_code = 1

C4_Witness ==
    /\ pc = "done"
    /\ ~email.delivered
    /\ email.status = "SUCCESS"
    /\ exit_code = 1

\* ---- entries of the log that concern one stack ----
StackMsgs == {"Stack directory not found. Skipping", "stack in", "Starting command",
              "Successfully finished", "Failed", "Creating uncompressed archive"}
AboutStack(i, x) ==
    \/ LOG_MESSAGES[i].msg \in StackMsgs /\ LOG_MESSAGES[i].arg = x
    \/ /\ LOG_MESSAGES[i].msg = "Command not found"
       /\ i > 1
       /\ LOG_MESSAGES[i - 1].arg = x
       /\ LOG_MESSAGES[i - 1].desc \in {"Stopping", "Starting", "Archiving"}
SizeUnknown == \E i \in DOMAIN NEW_ARCHIVES : NEW_ARCHIVES[i].size_human = NA

\* C5: when one stack's directory is absent and every other step succeeds,
\* that stack produces only WARNING entries, no archive operation and no start
\* command is attempted for it, the other stacks are stopped, archived and
\* restarted, and the run ends with status SUCCESS and exit code 0.
C5_AbsentStackSkipped ==
    pc = "done" =>
        \A x \in AllStacks :
            ( /\ DownSkipped(x) /\ UpSkipped(x)
              /\ \A y \in AllStacks \ {x} : ~DownSkipped(y) /\ ~UpSkipped(y)
              /\ \A i \in DOMAIN LOG_MESSAGES :
                    LOG_MESSAGES[i].level = "ERROR" => AboutStack(i, x)
              /\ disk_info.avail
              /\ ~SizeUnknown )
            =>
            ( /\ \A i \in DOMAIN LOG_MESSAGES :
                    AboutStack(i, x) => LOG_MESSAGES[i].level = "WARNING"
              /\ ~ArchiveAttempted(x)
              /\ ~UpIssued(x)
              /\ \A y \in AllStacks \ {x} :
                    DownSucceeded(y) /\ ArchiveSucceeded(y) /\ UpSucceeded(y)
              /\ email.status = "SUCCESS"
              /\ exit_code = 0 )

\* C6: when the stop command of stack X fails, X is not recorded as stopped
\* and gets no start attempt, the archive command is still run for X, every
\* other stack still gets its stop attempt, its archive command and (when
\* recorded as stopped) its start attempt, the status is FAILURE and the exit
\* code is 1.
C6_StopFailure ==
    \A x \in AllStacks :
        StopFailed(x) =>
            /\ x \notin Range(successfully_stopped_stacks)
            /\ ~StartAttempted(x)
            /\ ~BACKUP_SUCCESSFUL
            /\ email.composed => email.status = "FAILURE"
            /\ pc = "done" =>
                 /\ ArchiveAttempted(x)
                 /\ \A y \in AllStacks \ {x} :
                      /\ StopAttempted(y)
                      /\ ArchiveAttempted(y)
                      /\ (DownSucceeded(y) \/ DownSkipped(y)) => StartAttempted(y)
                 /\ email.status = "FAILURE"
                 /\ exit_code = 1

C6_Witness ==
    /\ pc = "done"
    /\ \E x, y \in AllStacks :
         /\ StopFailed(x)
         /\ ArchiveSucceeded(x)
         /\ DownSucceeded(y) /\ UpSucceeded(y)
         /\ exit_code = 1

\* ---- measurements ----
HasMsg(m) == \E i \in DOMAIN LOG_MESSAGES : LOG_MESSAGES[i].msg = m
DfSucceeded == HasEntry("INFO", "Successfully finished", "Checking disk usage", NoArg)
\* every step other than the disk usage query and the size queries succeeded
OtherStepsSucceeded ==
    /\ \A i \in DOMAIN LOG_MESSAGES :
         (LOG_MESSAGES[i].msg = "Starting command"
            /\ LOG_MESSAGES[i].desc # "Checking disk usage")
         => (i < Len(LOG_MESSAGES) /\ LOG_MESSAGES[i + 1].msg = "Successfully finished")
    /\ HasMsg("Local cleanup finished")
    /\ ~HasMsg("Error deleting file")
    /\ HasMsg("Email sent successfully")
MeasurementFailed == ~disk_info.avail \/ SizeUnknown
Placeholders ==
    /\ ~disk_info.avail => ~email.disk_avail
    /\ \A a \in Range(NEW_ARCHIVES) :
         a.size_human = NA => <<NA, a.path>> \in Range(email.archive_rows)
CleanRun ==
    /\ ~HasError(LOG_MESSAGES)
    /\ BACKUP_SUCCESSFUL
    /\ email.status = "SUCCESS"
    /\ exit_code = 0

\* C7 (as stated): a failed disk usage query (command failure or output that
\* cannot be parsed) or a failed size query logs no ERROR, leaves the success
\* flag alone, shows a placeholder, and with no other error the run ends with
\* status SUCCESS and exit code 0.
C7_Original ==
    (pc = "done" /\ OtherStepsSucceeded /\ MeasurementFailed) =>
        (Placeholders /\ CleanRun)

\* C7 (amended): disk usage output that cannot be parsed, or a failed size
\* query of a created archive, logs no ERROR, leaves the success flag alone
\* and shows a placeholder, and with no other error the run ends with status
\* SUCCESS and exit code 0; when the disk usage command itself fails, the
\* placeholder is shown as well but an ERROR is logged and the run ends with
\* status FAILURE and exit code 1.
C7_MeasurementFailure ==
    (pc = "done" /\ OtherStepsSucceeded /\ MeasurementFailed) =>
        /\ Placeholders
        /\ IF DfSucceeded
           THEN CleanRun
           ELSE /\ HasError(LOG_MESSAGES)
                /\ ~BACKUP_SUCCESSFUL
                /\ email.status = "FAILURE"
                /\ exit_code = 1

C7_Witness ==
    /\ pc = "done"
    /\ OtherStepsSucceeded
    /\ DfSucceeded
    /\ ~disk_info.avail
    /\ SizeUnknown
    /\ exit_code = 0

\* C8: retention never deletes a file created within the same run: the paths
\* of the deleted-file list and of the new-archive list are disjoint, and
\* every archive created in the run is still on disk.
ArchivePaths == {NEW_ARCHIVES[i].path : i \in DOMAIN NEW_ARCHIVES}
C8_RetentionSparesNewArchives ==
    /\ Range(DELETED_FILES) \cap ArchivePaths = {}
    /\ ArchivePaths \subseteq DOMAIN files

C8_Witness ==
    /\ pc = "done"
    /\ Len(DELETED_FILES) = MaxOldFiles
    /\ Len(NEW_ARCHIVES) = Len(all_stacks)
    /\ HasMsg("Deleted old backup")

\* C10: the total size of the report's archive table is computed from the
\* exact sum of the byte sizes of the entries of the archive list, not from
\* the rounded human-readable strings; for an empty list the sum is 0.
RECURSIVE SumOver(_, _)
SumOver(f, S) ==
    IF S = {} THEN 0
    ELSE LET i == CHOOSE j \in S : TRUE
         IN  f[i].size_bytes + SumOver(f, S \ {i})
ExactTotal == SumOver(NEW_ARCHIVES, DOMAIN NEW_ARCHIVES)

C10_TotalIsExactSum ==
    email.composed =>
        /\ email.total_size_bytes = ExactTotal
        /\ email.total_size_human = format_bytes(ExactTotal)
        /\ email.total_shown <=> NEW_ARCHIVES # <<>>
        /\ NEW_ARCHIVES = <<>> => email.total_size_bytes = 0

C10_Witness ==
    /\ email.composed
    /\ Len(NEW_ARCHIVES) >= 2
    /\ email.total_shown
    /\ email.total_size_bytes = 1048576 + 10240
    /\ email.total_size_human = <<10, 2>>
    /\ \E a \in Range(NEW_ARCHIVES) : a.size_human # format_bytes(a.size_bytes)

\* ---- two sweeps in immediate succession ----
SweepAges == {0, DAILY_RETENTION_DAYS, DAILY_RETENTION_DAYS + 1}

SweepInit ==
    /\ pc = "sweep1"
    /\ idx = 0
    /\ LOG_MESSAGES = <<>>
    /\ BACKUP_SUCCESSFUL = TRUE
    /\ NEW_ARCHIVES = <<>>
    /\ DELETED_FILES = <<>>
    /\ successfully_stopped_stacks = <<>>
    /\ files \in UNION {[S -> SweepAges] : S \in SUBSET OldPaths}
    /\ disk_info = NoDisk
    /\ email = NoEmail
    /\ log_file = <<>>
    /\ exit_code = -1
    /\ faults = 0

Sweep(from, to) ==
    /\ pc = from
    /\ \E find \in FindOutcomes, undeletable \in SUBSET find_matches(files) :
         LET cost == Cost(find # "ok") + Cardinality(undeletable)
             r == cleanup_local_backups(State, DELETED_FILES, files, find, undeletable)
         IN  /\ find # "ok" => undeletable = {}
             /\ faults + cost <= MaxFaults
             /\ faults' = faults + cost
             /\ LOG_MESSAGES' = r.st.log
             /\ BACKUP_SUCCESSFUL' = r.st.ok
             /\ DELETED_FILES' = r.deleted
             /\ files' = r.files
    /\ pc' = to
    /\ UNCHANGED <<idx, NEW_ARCHIVES, successfully_stopped_stacks, disk_info, email,
                   log_file, exit_code>>

FirstSweep == Sweep("sweep1", "sweep2")
SecondSweep == Sweep("sweep2", "swept")
SweepNext == FirstSweep \/ SecondSweep
SweepSpec == SweepInit /\ [][SweepNext]_vars

Rank(p) ==
    CASE p = "main" -> 0 [] p = "stop" -> 1 [] p = "archive" -> 2 [] p = "start" -> 3
      [] p = "disk" -> 4 [] p = "email" -> 5 [] p = "finish" -> 6 [] p = "done" -> 7
\* the first entry each phase logs: stop, archive, start, retention sweep,
\* disk probe, notification, end of the script
Markers ==
    << <<"Phase 1: Stopping all stacks", "">>, <<"Phase 2: Creating archives", "">>,
       <<"Phase 3: Starting stopped stacks", "">>,
       <<"Phase 4: Running local retention cleanup", "">>,
       <<"Starting command", "Checking disk usage">>, <<"Sending email notification", "">>,
       <<"SCRIPT END", "">> >>
MarkerSet == Range(Markers)
IsMarker(e) == <<e.msg, e.desc>> \in MarkerSet
\* the phases the log shows the run to have entered, in the order of the log
Entered ==
    LET marks == SelectSeq(LOG_MESSAGES, IsMarker)
    IN  [i \in DOMAIN marks |-> <<marks[i].msg, marks[i].desc>>]

IsArchiveEntry(e) == e.desc = "Archiving" \/ e.msg = "Command not found"
ArchiveEntries == SelectSeq(LOG_MESSAGES, IsArchiveEntry)
Recorded(s) == Cardinality({i \in DOMAIN NEW_ARCHIVES : NEW_ARCHIVES[i].path = s})

\* C12: every stack gets exactly one archive attempt per run (none before its
\* turn in the archive loop, one from then on, whatever happened to the stacks
\* before it); the archive list holds exactly one entry for each stack whose
\* archive command succeeded and none for a stack whose command failed; a
\* failed archive command logs an ERROR and the run is marked failed.
C12_OneArchiveAttemptPerStack ==
    LET ae == ArchiveEntries
        attempt(s) == [level |-> "INFO", msg |-> "Starting command",
                       desc |-> "Archiving", arg |-> s]
        success(s) == [level |-> "INFO", msg |-> "Successfully finished",
                       desc |-> "Archiving", arg |-> s]
        attempts(s) == {i \in DOMAIN ae : ae[i] = attempt(s)}
        succeeded(s) == \E i \in DOMAIN ae : ae[i] = success(s)
    IN  /\ \A k \in DOMAIN all_stacks :
             LET s == all_stacks[k]
             IN  /\ Cardinality(attempts(s))
                      = IF Rank(pc) > 2 \/ (pc = "archive" /\ k < idx) THEN 1 ELSE 0
                 /\ Recorded(s) = IF succeeded(s) THEN 1 ELSE 0
                 /\ \A i \in attempts(s) :
                      \/ ae[i + 1] = success(s)
                      \/ ae[i + 1].level = "ERROR" /\ ~BACKUP_SUCCESSFUL /\ ~succeeded(s)
        /\ Len(NEW_ARCHIVES) = Cardinality({s \in AllStacks : succeeded(s)})

C12_Witness ==
    /\ pc = "done"
    /\ ArchiveAttempted(all_stacks[1])
    /\ ~ArchiveSucceeded(all_stacks[1])
    /\ ArchiveSucceeded(all_stacks[Len(all_stacks)])
    /\ Len(NEW_ARCHIVES) = Len(all_stacks) - 1

\* ---- retention sweep ----
\* the entries a step appends to the log, and what it appends to the deleted list
Logged == SubSeq(LOG_MESSAGES', Len(LOG_MESSAGES) + 1, Len(LOG_MESSAGES'))
Gained == SubSeq(DELETED_FILES', Len(DELETED_FILES) + 1, Len(DELETED_FILES'))
CountIn(entries, level, m, a) ==
    Cardinality({i \in DOMAIN entries :
                   entries[i] = [level |-> level, msg |-> m, desc |-> "", arg |-> a]})
Errors(entries) == Cardinality({i \in DOMAIN entries : entries[i].level = "ERROR"})
SweepStep == pc = "start" /\ pc' = "disk"
ScanSucceeded(entries) == \E i \in DOMAIN entries : entries[i].msg = "Local cleanup finished"
Older == {f \in DOMAIN files : files[f] > DAILY_RETENTION_DAYS}

\* C13: in a sweep whose scan succeeds, every file older than the threshold
\* gets exactly one deletion attempt, whatever happened to the files before
\* it; the deleted list gains exactly the files whose removal succeeded, one
\* record each; each failed removal logs one ERROR, adds no record and leaves
\* the file; files not older than the threshold are neither attempted, deleted
\* nor recorded.
C13_SweepDeletesEachOldFileOnce ==
    [][(SweepStep /\ ScanSucceeded(Logged)) =>
         /\ SubSeq(DELETED_FILES', 1, Len(DELETED_FILES)) = DELETED_FILES
         /\ \A f \in DOMAIN files :
              LET del == CountIn(Logged, "INFO", "Deleted old backup", f)
                  err == CountIn(Logged, "ERROR", "Error deleting file", f)
                  rec == Cardinality({i \in DOMAIN Gained : Gained[i] = f})
              IN  IF f \in Older
                  THEN /\ del + err = 1
                       /\ rec = del
                       /\ (del = 1) <=> (f \notin DOMAIN files')
                  ELSE /\ del = 0 /\ err = 0 /\ rec = 0
                       /\ f \in DOMAIN files'
         /\ Range(Gained) \subseteq Older
         /\ Len(Gained) = Cardinality({f \in Older : f \notin DOMAIN files'})
         /\ Errors(Logged) = Cardinality({f \in Older : f \in DOMAIN files'})
         /\ DOMAIN files' \subseteq DOMAIN files
      ]_vars

\* a sweep in which a removal failed and a later removal succeeded
C13_Witness ==
    /\ pc = "disk"
    /\ \E i, j \in DOMAIN LOG_MESSAGES :
         /\ i < j
         /\ LOG_MESSAGES[i].level = "ERROR"
         /\ LOG_MESSAGES[i].msg = "Error deleting file"
         /\ LOG_MESSAGES[j].msg = "Deleted old backup"
         /\ DELETED_FILES = <<LOG_MESSAGES[j].arg>>
         /\ LOG_MESSAGES[i].arg \in DOMAIN files

ScanFailed(entries) ==
    \E i \in DOMAIN entries :
        /\ entries[i].level = "ERROR"
        /\ entries[i].msg \in {"Error during find command execution",
                               "An unexpected error occurred during cleanup"}

\* C14: a sweep whose scan fails logs an ERROR (the run is marked failed),
\* deletes nothing and adds nothing to the deleted list, and the run goes on
\* to the disk probe and to the report; a sweep whose scan succeeds and
\* matches no file logs no ERROR, leaves the success flag as it was, deletes
\* nothing and records nothing.
C14_ScanFailureAndEmptyScan ==
    [][/\ (SweepStep /\ ~ScanSucceeded(Logged)) =>
            /\ ScanFailed(Logged)
            /\ Errors(Logged) = 1
            /\ ~BACKUP_SUCCESSFUL'
            /\ files' = files
            /\ DELETED_FILES' = DELETED_FILES
            /\ \A i \in DOMAIN Logged :
                 Logged[i].msg \notin {"Deleted old backup", "Error deleting file"}
       /\ (SweepStep /\ ScanSucceeded(Logged) /\ Older = {}) =>
            /\ Errors(Logged) = 0
            /\ BACKUP_SUCCESSFUL' = BACKUP_SUCCESSFUL
            /\ files' = files
            /\ DELETED_FILES' = DELETED_FILES
       /\ (pc = "disk" /\ ScanFailed(LOG_MESSAGES)) =>
            /\ pc' = "email"
            /\ \E i \in DOMAIN Logged :
                 Logged[i].msg = "Starting command" /\ Logged[i].desc = "Checking disk usage"
            /\ files' = files
            /\ DELETED_FILES' = DELETED_FILES
       /\ (pc = "email" /\ ScanFailed(LOG_MESSAGES)) =>
            /\ pc' = "finish"
            /\ email'.composed
            /\ email'.status = "FAILURE"
            /\ email'.retention_rows = <<>>
      ]_vars

\* a run whose scan failed with old files on disk, after its report
C14_Witness ==
    /\ pc = "done"
    /\ ScanFailed(LOG_MESSAGES)
    /\ Errors(LOG_MESSAGES) = 1
    /\ \E f \in OldPaths : f \in DOMAIN files /\ files[f] > DAILY_RETENTION_DAYS
    /\ DELETED_FILES = <<>>
    /\ email.composed
    /\ disk_info.avail

\* a sweep whose scan succeeded and matched nothing, in a run that had failed before
C14_EmptyScanReached ==
    /\ pc = "disk"
    /\ ~BACKUP_SUCCESSFUL
    /\ HasEntry("INFO", "Local cleanup finished", "", 0)
    /\ \A f \in DOMAIN files : files[f] <= DAILY_RETENTION_DAYS

\* ---- success flag ----
\* C15: the success flag is monotonic: it is true when the run starts, and
\* once it is false no step makes it true again.
C15_FlagMonotonic ==
    /\ BACKUP_SUCCESSFUL = TRUE
    /\ [][BACKUP_SUCCESSFUL' => BACKUP_SUCCESSFUL]_vars

\* a failed run in which commands succeeded after the failure
C15_Witness ==
    /\ pc = "done"
    /\ ~BACKUP_SUCCESSFUL
    /\ StopFailed(all_stacks[1])
    /\ \E s \in AllStacks : UpSucceeded(s)
    /\ \E s \in AllStacks : ArchiveSucceeded(s)
    /\ email.delivered

\* ---- order of the phases ----
\* the entries that record an attempt or its result, and the phase each
\* belongs to: 1 stop, 2 archive, 3 start, 4 retention sweep, 5 disk probe,
\* 6 notification
PhaseOfKind ==
    (<<"Starting command", "Stopping">> :> 1)
    @@ (<<"Stack directory not found. Skipping", "down">> :> 1)
    @@ (<<"Successfully finished", "Stopping">> :> 1)
    @@ (<<"Failed", "Stopping">> :> 1)
    @@ (<<"Creating uncompressed archive", "">> :> 2)
    @@ (<<"Starting command", "Archiving">> :> 2)
    @@ (<<"Successfully finished", "Archiving">> :> 2)
    @@ (<<"Failed", "Archiving">> :> 2)
    @@ (<<"Starting command", "Starting">> :> 3)
    @@ (<<"Stack directory not found. Skipping", "up">> :> 3)
    @@ (<<"Successfully finished", "Starting">> :> 3)
    @@ (<<"Failed", "Starting">> :> 3)
    @@ (<<"Starting local backup cleanup", "">> :> 4)
    @@ (<<"Error during find command execution", "">> :> 4)
    @@ (<<"An unexpected error occurred during cleanup", "">> :> 4)
    @@ (<<"Deleted old backup", "">> :> 4)
    @@ (<<"Error deleting file", "">> :> 4)
    @@ (<<"Local cleanup finished", "">> :> 4)
    @@ (<<"Starting command", "Checking disk usage">> :> 5)
    @@ (<<"Successfully finished", "Checking disk usage">> :> 5)
    @@ (<<"Failed", "Checking disk usage">> :> 5)
    @@ (<<"Sending email notification", "">> :> 6)
    @@ (<<"Email sent successfully", "">> :> 6)
    @@ (<<"Failed to send email", "">> :> 6)
EventKinds == DOMAIN PhaseOfKind
IsEvent(e) == <<e.msg, e.desc>> \in EventKinds
Events == SelectSeq(LOG_MESSAGES, IsEvent)
IsStopAttempt(e) ==
    \/ e.msg = "Starting command" /\ e.desc = "Stopping"
    \/ e.msg = "Stack directory not found. Skipping" /\ e.desc = "down"
IsStopSuccess(e, s) ==
    /\ e.arg = s
    /\ \/ e.msg = "Successfully finished" /\ e.desc = "Stopping"
       \/ e.msg = "Stack directory not found. Skipping" /\ e.desc = "down"
IsStartAttempt(e) ==
    \/ e.msg = "Starting command" /\ e.desc = "Starting"
    \/ e.msg = "Stack directory not found. Skipping" /\ e.desc = "up"
\* no two entries of the sequence are about the same stack
OncePerStack(entries) == Cardinality({entries[i].arg : i \in DOMAIN entries}) = Len(entries)

\* C16: the phases are strictly ordered and never repeated: in the log every
\* stop attempt comes before every archive attempt, every archive attempt
\* before every start attempt, every start attempt before the sweep, the sweep
\* before the disk probe and the disk probe before the notification; each
\* stack has at most one stop attempt and at most one start attempt; a stack's
\* start is attempted only after the result of its own stop attempt is in the
\* log.
C16_PhasesOrdered ==
    LET ev == Events
        phase(i) == PhaseOfKind[<<ev[i].msg, ev[i].desc>>]
    IN  /\ \A i \in 1..(Len(ev) - 1) : phase(i) <= phase(i + 1)
        /\ OncePerStack(SelectSeq(ev, IsStopAttempt))
        /\ OncePerStack(SelectSeq(ev, IsStartAttempt))
        /\ \A j \in DOMAIN ev :
             IsStartAttempt(ev[j]) => \E i \in 1..(j - 1) : IsStopSuccess(ev[i], ev[j].arg)

\* a finished run in which a stop failed and every phase left entries
C16_Witness ==
    /\ pc = "done"
    /\ \A s \in AllStacks : StopAttempted(s) /\ ArchiveAttempted(s)
    /\ \E s \in AllStacks : StopFailed(s)
    /\ \E s \in AllStacks : StartAttempted(s)
    /\ HasMsg("Deleted old backup")
    /\ HasMsg("Email sent successfully")

\* ---- notification ----
SendStep == pc = "email" /\ pc' = "finish"
\* what a successful send leaves, from the state the send starts in
Sent == send_email_notification(State, NEW_ARCHIVES, DELETED_FILES, disk_info, TRUE)
RestartedIn(entries) ==
    {s \in AllStacks :
       \E i \in DOMAIN entries :
          entries[i] = [level |-> "INFO", msg |-> "Successfully finished",
                        desc |-> "Starting", arg |-> s]}
WorkFinished ==
    /\ \A s \in AllStacks : StopAttempted(s) /\ ArchiveAttempted(s)
    /\ \A s \in Range(successfully_stopped_stacks) : StartAttempted(s)
    /\ ScanSucceeded(LOG_MESSAGES) \/ ScanFailed(LOG_MESSAGES)

\* C17: a notification send failure is recorded in the log and changes
\* nothing else of the committed outcome: after a send, failed or not, the
\* archive list and the deleted-file list are what a successful send leaves
\* (the same records), and the stopped stacks, the restarted stacks and the
\* files on disk are as before the send; the send is attempted only after all
\* stop, archive, start and sweep work has finished.
C17_SendFailureOnlyLogged ==
    [][SendStep =>
         /\ WorkFinished
         /\ NEW_ARCHIVES' = Sent.archives
         /\ DELETED_FILES' = Sent.deleted
         /\ Len(NEW_ARCHIVES') = Len(NEW_ARCHIVES)
         /\ Range(NEW_ARCHIVES') = Range(NEW_ARCHIVES)
         /\ Len(DELETED_FILES') = Len(DELETED_FILES)
         /\ Range(DELETED_FILES') = Range(DELETED_FILES)
         /\ successfully_stopped_stacks' = successfully_stopped_stacks
         /\ RestartedIn(LOG_MESSAGES') = RestartedIn(LOG_MESSAGES)
         /\ files' = files
         /\ disk_info' = disk_info
         /\ Logged[1].msg = "Sending email notification"
         /\ Len(Logged) = 2
         /\ IF email'.delivered
            THEN Logged[2] = [level |-> "INFO", msg |-> "Email sent successfully",
                              desc |-> "", arg |-> NoArg]
            ELSE Logged[2] = [level |-> "ERROR", msg |-> "Failed to send email",
                              desc |-> "", arg |-> NoArg]
      ]_vars

\* after a failed send, with archives, deleted files and a restarted stack
C17_Witness ==
    /\ pc = "finish"
    /\ HasEntry("ERROR", "Failed to send email", "", NoArg)
    /\ ~email.delivered
    /\ Len(NEW_ARCHIVES) = Len(all_stacks)
    /\ DELETED_FILES # <<>>
    /\ RestartedIn(LOG_MESSAGES) # {}

\* ---- report body ----
Tables == <<Part("archive_table"), Part("disk_summary"), Part("retention_table"),
            Part("--- Full Log ---")>>
\* the first n entries of the log are in the body, after the tables, in the
\* order they were logged
InBody(n) ==
    /\ Len(email.content) >= Len(Tables) + n
    /\ SubSeq(email.content, 1, Len(Tables)) = Tables
    /\ SubSeq(email.content, Len(Tables) + 1, Len(Tables) + n) = SubSeq(LOG_MESSAGES, 1, n)

\* C18 as stated: every entry in the run's log is in the body of the report,
\* in the order it was logged, after the tables.
C18_Original == pc = "done" => InBody(Len(LOG_MESSAGES))

\* C18: a report is composed in every run, and its body holds, after the
\* tables, the ordered transcript of the log as it is when the report is
\* composed: exactly the entries logged before the "Sending email
\* notification" entry, in the order they were logged.  The entries logged
\* from the send attempt on are not in the body.
C18_BodyHoldsLogAtCompose ==
    /\ Rank(pc) >= 6 => email.composed
    /\ email.composed =>
         LET n == Len(email.content) - Len(Tables)
         IN  /\ n >= 0
             /\ InBody(n)
             /\ Len(LOG_MESSAGES) > n + 1
             /\ LOG_MESSAGES[n + 1].msg = "Sending email notification"

\* a finished failed run whose report holds the ERROR entry of a failed stop
C18_Witness ==
    /\ pc = "done"
    /\ email.composed
    /\ \E s \in AllStacks : StopFailed(s)
    /\ \E i \in DOMAIN email.content :
         /\ i > Len(Tables)
         /\ email.content[i].level = "ERROR"
    /\ LOG_MESSAGES[Len(LOG_MESSAGES)].msg = "SCRIPT END"

\* ---- stacks whose directory is absent ----
\* the run saw the directory of s in the same state at its stop attempt and at
\* its start attempt
DirectoryStable(s) == StartAttempted(s) => (DownSkipped(s) <=> UpSkipped(s))
IsComposeEntry(e) == e.desc \in {"Stopping", "Starting", "down", "up"}
ComposeEntries == SelectSeq(LOG_MESSAGES, IsComposeEntry)
In(e, entries) == \E i \in DOMAIN entries : entries[i] = e
ComposeEntry(level, m, d, s) == [level |-> level, msg |-> m, desc |-> d, arg |-> s]

\* C19: for a stack whose directory exists or is absent throughout the run, an
\* up command is issued only if a down command was issued for it earlier and
\* exited successfully; a stack whose directory is absent is recorded as
\* successfully stopped, no down and no up command is issued for it, and both
\* its stop and its start attempt are skipped with a WARNING.
C19_UpOnlyAfterSuccessfulDown ==
    LET ce == ComposeEntries
    IN  \A s \in AllStacks :
          LET down == ComposeEntry("INFO", "Starting command", "Stopping", s)
              downOk == ComposeEntry("INFO", "Successfully finished", "Stopping", s)
              downSkip == ComposeEntry("WARNING", "Stack directory not found. Skipping",
                                       "down", s)
              up == ComposeEntry("INFO", "Starting command", "Starting", s)
              upSkip == ComposeEntry("WARNING", "Stack directory not found. Skipping",
                                     "up", s)
              stable == (In(up, ce) \/ In(upSkip, ce)) => (In(downSkip, ce) <=> In(upSkip, ce))
          IN  stable =>
                /\ \A j \in DOMAIN ce :
                     ce[j] = up => \E i \in 1..(j - 1) : ce[i] = down /\ ce[i + 1] = downOk
                /\ In(downSkip, ce) =>
                     /\ s \in Range(successfully_stopped_stacks)
                     /\ ~In(down, ce)
                     /\ ~In(up, ce)
                     /\ Rank(pc) >= 4 => In(upSkip, ce)

\* a finished run with one stack absent throughout and one stopped and started
C19_Witness ==
    /\ pc = "done"
    /\ \A s \in AllStacks : DirectoryStable(s)
    /\ \E s \in AllStacks : DownSkipped(s) /\ UpSkipped(s)
    /\ \E s \in AllStacks : DownSucceeded(s) /\ UpIssued(s)

\* a stack whose directory appeared between its stop and its start attempt
C19_DirectoryAppeared ==
    \E s \in AllStacks : DownSkipped(s) /\ UpIssued(s)

====
